---- MODULE Spec2Model ----
(***************************************************************************)
(* Progress engine of the language-learning backend: the user_word_progress *)
(* table, the CRUD operations of UserWordProgressCRUD over it and the       *)
(* spaced-repetition recurrence.                                            *)
(*                                                                          *)
(* Time is counted in whole days.  A nullable column holds None (the empty  *)
(* tuple) or Some(v) (the one-element tuple).  The Float column ease_factor *)
(* holds an IEEE-754 double, kept exactly as four 15-bit limbs counting     *)
(* units of 2^-56, so that +0.1, -0.2 and interval * ease round as they do  *)
(* in the interpreter.                                                      *)
(***************************************************************************)
EXTENDS Integers, Naturals, Sequences, FiniteSets, TLC

VARIABLES
    rows,       \* the table user_word_progress
    nextId,     \* the sequence behind its primary key
    now,        \* datetime.utcnow(), in days
    reqs,       \* per worker: the request it has between two database calls
    last,       \* the call that completed last, with what it returned
    answered,   \* history: per row id, the correct and the incorrect answers
                \* whose RecordAnswer call returned the record
    user_streaks,   \* the table user_streaks
    users,          \* the table users
    user_sessions,  \* the table user_sessions
    tokens,         \* the access tokens issued so far, each held by a client
    login_of,       \* history: per session jti, the jti of the session its
                    \* login created and it replaces, refresh by refresh
    voided          \* history: the sessions that were recorded when a
                    \* change-password or revoke-all-sessions call returned

\* What the progress engine never writes: the streaks and the accounts.
elsewhere == <<user_streaks, users, user_sessions, tokens, login_of, voided>>

\* What the streak and the authentication code never write.
word_progress == <<rows, nextId, answered>>

vars == <<rows, nextId, now, reqs, last, answered, user_streaks, users,
          user_sessions, tokens, login_of, voided>>

(***************************************************************************)
(* Bounds of the model                                                      *)
(***************************************************************************)
MaxNow == 1
MaxSeen == 1
MaxId == 2

Users == {1}
Words == {1}
Slots == {1, 2}

None == <<>>
Some(v) == <<v>>
Option(S) == {None} \cup {Some(v) : v \in S}

(***************************************************************************)
(* Enumerations (learning_models.py)                                        *)
(***************************************************************************)
LearningStatus == {"want_to_learn", "learning", "learned", "mastered", "review"}
DifficultyRating == {"very_easy", "easy", "medium", "hard", "very_hard"}

\* the ratings and notes that requests of the model carry
RatingInputs == {"easy"}
NoteInputs == {"note"}

(***************************************************************************)
(* IEEE-754 doubles as exact multiples of 2^-56 in four limbs               *)
(***************************************************************************)
Limb == 2^15
OneUnit == 2^11

\* the double literals of learning_crud.py and learning_models.py
Float_0_1 == <<204, 26214, 13107, 6554>>
Float_0_2 == <<409, 19660, 26214, 13108>>
Float_1_3 == <<2662, 13107, 6553, 19664>>
Float_2_5 == <<5120, 0, 0, 0>>
Float_2_8 == <<5734, 13107, 6553, 19648>>

RECURSIVE Log2(_)
Log2(n) == IF n < 2 THEN 0 ELSE 1 + Log2(n \div 2)

\* carry between the limbs
FloatNorm(v) ==
    LET t3 == v[3] + (v[4] \div Limb)
        t2 == v[2] + (t3 \div Limb)
    IN  <<v[1] + (t2 \div Limb), t2 % Limb, t3 % Limb, v[4] % Limb>>

\* round an exact value >= 1 to 53 significant bits, ties to even
FloatRound(v) ==
    LET q == 2^(Log2(v[1] \div OneUnit) + 4)
        low == v[3] * Limb + v[4]
        r == low % q
        odd == (low \div q) % 2 = 1
        up == r > q \div 2 \/ (r = q \div 2 /\ odd)
    IN  FloatNorm(<<v[1], v[2], 0, low - r + (IF up THEN q ELSE 0)>>)

FloatAdd(a, b) ==
    FloatRound(FloatNorm(<<a[1] + b[1], a[2] + b[2], a[3] + b[3], a[4] + b[4]>>))
FloatSub(a, b) ==
    FloatRound(FloatNorm(<<a[1] - b[1], a[2] - b[2], a[3] - b[3], a[4] - b[4]>>))
FloatMulInt(n, a) ==
    FloatRound(FloatNorm(<<n * a[1], n * a[2], n * a[3], n * a[4]>>))
FloatInt(a) == a[1] \div OneUnit

FloatLE(a, b) ==
    \/ a[1] < b[1]
    \/ a[1] = b[1] /\ a[2] < b[2]
    \/ a[1] = b[1] /\ a[2] = b[2] /\ a[3] < b[3]
    \/ a[1] = b[1] /\ a[2] = b[2] /\ a[3] = b[3] /\ a[4] <= b[4]

FloatMin(a, b) == IF FloatLE(a, b) THEN a ELSE b
FloatMax(a, b) == IF FloatLE(a, b) THEN b ELSE a
IntMax(a, b) == IF a >= b THEN a ELSE b

(***************************************************************************)
(* _calculate_spaced_repetition                                             *)
(***************************************************************************)
new_interval(progress, was_correct) ==
    IF was_correct
    THEN IntMax(1, FloatInt(FloatMulInt(progress.repetition_interval,
                                        progress.ease_factor)))
    ELSE 1

\* variant: the ease of a correct answer is not capped
new_ease_uncapped(progress, was_correct) ==
    IF was_correct
    THEN FloatAdd(progress.ease_factor, Float_0_1)
    ELSE FloatMax(Float_1_3, FloatSub(progress.ease_factor, Float_0_2))

new_ease(progress, was_correct) ==
    IF was_correct
    THEN FloatMin(Float_2_8, FloatAdd(progress.ease_factor, Float_0_1))
    ELSE FloatMax(Float_1_3, FloatSub(progress.ease_factor, Float_0_2))

\* variant: an incorrect answer resets the interval to 0 days
calculate_spaced_repetition_zero(progress, was_correct, t) ==
    LET interval == IF was_correct THEN new_interval(progress, was_correct) ELSE 0
    IN  ("repetition_interval" :> interval)
        @@ ("ease_factor" :> new_ease(progress, was_correct))
        @@ ("next_review_at" :> Some(t + interval))

\* variant: the next review is scheduled with the interval before the answer
calculate_spaced_repetition_stale(progress, was_correct, t) ==
    ("repetition_interval" :> new_interval(progress, was_correct))
    @@ ("ease_factor" :> new_ease(progress, was_correct))
    @@ ("next_review_at" :> Some(t + progress.repetition_interval))

calculate_spaced_repetition(progress, was_correct, t) ==
    ("repetition_interval" :> new_interval(progress, was_correct))
    @@ ("ease_factor" :> new_ease(progress, was_correct))
    @@ ("next_review_at" :> Some(t + new_interval(progress, was_correct)))

(***************************************************************************)
(* The user_word_progress table                                             *)
(***************************************************************************)
\* variant: a new row is due for review on the day it is added
UserWordProgressDueAtOnce(id, user_id, word_id, status, t) ==
    [id |-> id,
     user_id |-> user_id,
     kazakh_word_id |-> word_id,
     status |-> status,
     times_seen |-> 0,
     times_correct |-> 0,
     times_incorrect |-> 0,
     difficulty_rating |-> None,
     added_at |-> t,
     first_learned_at |-> None,
     last_practiced_at |-> None,
     next_review_at |-> Some(t),
     repetition_interval |-> 1,
     ease_factor |-> Float_2_5,
     user_notes |-> None,
     created_at |-> t,
     updated_at |-> t]

\* a row as the column defaults of UserWordProgress make it at INSERT
UserWordProgress(id, user_id, word_id, status, t) ==
    [id |-> id,
     user_id |-> user_id,
     kazakh_word_id |-> word_id,
     status |-> status,
     times_seen |-> 0,
     times_correct |-> 0,
     times_incorrect |-> 0,
     difficulty_rating |-> None,
     added_at |-> t,
     first_learned_at |-> None,
     last_practiced_at |-> None,
     next_review_at |-> None,
     repetition_interval |-> 1,
     ease_factor |-> Float_2_5,
     user_notes |-> None,
     created_at |-> t,
     updated_at |-> t]

\* the rows a SELECT ... WHERE user_id = u AND kazakh_word_id = w matches
Matching(table, user_id, word_id) ==
    {r \in table : r.user_id = user_id /\ r.kazakh_word_id = word_id}

\* scalar_one_or_none() of that SELECT
get_user_word_progress(table, user_id, word_id) ==
    LET m == Matching(table, user_id, word_id)
    IN  IF m = {} THEN None ELSE Some(CHOOSE r \in m : TRUE)

\* variant: the table has no unique constraint
no_unique_constraint(table, user_id, word_id) == TRUE

\* INSERT under the constraint unique_user_word: TRUE when the row may go in
unique_user_word(table, user_id, word_id) ==
    Matching(table, user_id, word_id) = {}

\* variant: status == LEARNED stamps first_learned_at whatever the row holds
status_update_restamp(progress, status, t) ==
    IF status # None
    THEN ("status" :> status[1])
         @@ (IF status[1] = "learned"
             THEN ("first_learned_at" :> Some(t))
             ELSE <<>>)
    ELSE <<>>

\* update_data["status"] and update_data["first_learned_at"]
status_update(progress, status, t) ==
    IF status # None
    THEN ("status" :> status[1])
         @@ (IF status[1] = "learned" /\ progress.first_learned_at = None
             THEN ("first_learned_at" :> Some(t))
             ELSE <<>>)
    ELSE <<>>

\* variant: every answer counts as a correct one
answer_update_all_correct(progress, was_correct, t) ==
    IF was_correct # None
    THEN ("times_seen" :> progress.times_seen + 1)
         @@ ("last_practiced_at" :> Some(t))
         @@ ("times_correct" :> progress.times_correct + 1)
    ELSE <<>>

\* update_data["times_seen"], ["last_practiced_at"] and the counter of the
\* answer
answer_update(progress, was_correct, t) ==
    IF was_correct # None
    THEN ("times_seen" :> progress.times_seen + 1)
         @@ ("last_practiced_at" :> Some(t))
         @@ (IF was_correct[1]
             THEN ("times_correct" :> progress.times_correct + 1)
             ELSE ("times_incorrect" :> progress.times_incorrect + 1))
    ELSE <<>>

\* variant: the recurrence runs on every update, as after a correct answer
\* when the request carries no answer
update_data_reschedule(progress, status, was_correct, difficulty_rating, user_notes, t) ==
    ("updated_at" :> t)
    @@ status_update(progress, status, t)
    @@ answer_update(progress, was_correct, t)
    @@ (IF difficulty_rating # None
        THEN ("difficulty_rating" :> difficulty_rating)
        ELSE <<>>)
    @@ (IF user_notes # None
        THEN ("user_notes" :> user_notes)
        ELSE <<>>)
    @@ calculate_spaced_repetition(progress,
            IF was_correct # None THEN was_correct[1] ELSE TRUE, t)

\* variant: storing a rating clears the notes of the record
update_data_rating_clears_notes(progress, status, was_correct, difficulty_rating, user_notes, t) ==
    ("updated_at" :> t)
    @@ status_update(progress, status, t)
    @@ answer_update(progress, was_correct, t)
    @@ (IF difficulty_rating # None
        THEN ("difficulty_rating" :> difficulty_rating) @@ ("user_notes" :> None)
        ELSE <<>>)
    @@ (IF user_notes # None
        THEN ("user_notes" :> user_notes)
        ELSE <<>>)
    @@ (IF was_correct # None
        THEN calculate_spaced_repetition(progress, was_correct[1], t)
        ELSE <<>>)

\* the update_data dictionary that update_word_progress builds from the row
\* it has read
update_data(progress, status, was_correct, difficulty_rating, user_notes, t) ==
    ("updated_at" :> t)
    @@ status_update(progress, status, t)
    @@ answer_update(progress, was_correct, t)
    @@ (IF difficulty_rating # None
        THEN ("difficulty_rating" :> difficulty_rating)
        ELSE <<>>)
    @@ (IF user_notes # None
        THEN ("user_notes" :> user_notes)
        ELSE <<>>)
    @@ (IF was_correct # None
        THEN calculate_spaced_repetition(progress, was_correct[1], t)
        ELSE <<>>)

\* one row after UPDATE ... SET **values
SetValues(r, values) ==
    [f \in DOMAIN r |-> IF f \in DOMAIN values THEN values[f] ELSE r[f]]

\* variant: the UPDATE has no condition on the user
ExecuteUpdateOfWord(table, user_id, word_id, values) ==
    {IF r.kazakh_word_id = word_id
     THEN SetValues(r, values) ELSE r : r \in table}

\* the table after UPDATE user_word_progress SET **values WHERE user_id = u
\* AND kazakh_word_id = w
ExecuteUpdate(table, user_id, word_id, values) ==
    {IF r.user_id = user_id /\ r.kazakh_word_id = word_id
     THEN SetValues(r, values) ELSE r : r \in table}

\* the table after DELETE FROM user_word_progress WHERE user_id = u AND
\* kazakh_word_id = w
ExecuteDelete(table, user_id, word_id) ==
    table \ Matching(table, user_id, word_id)

Idle == [pc |-> "idle"]

\* what the last completed call was and what it returned
Call(op, user_id, word_id, status, was_correct, result, error) ==
    [op |-> op, user_id |-> user_id, word_id |-> word_id, status |-> status,
     was_correct |-> was_correct, result |-> result, error |-> error]

\* the history of answers, kept for the rows of the table
Insert(hist, id) == hist @@ (id :> <<0, 0>>)
Keep(hist, table) == [i \in {r.id : r \in table} |-> hist[i]]
Acknowledge(hist, was_correct, result) ==
    IF was_correct = None \/ result = None
    THEN hist
    ELSE [hist EXCEPT ![result[1].id] =
            IF was_correct[1] THEN <<@[1] + 1, @[2]>> ELSE <<@[1], @[2] + 1>>]

\* The roles of an account.
UserRole == {"student", "writer", "admin"}

\* The passwords a client may type.
Passwords == {"old", "new"}

\* auth/utils.py is not part of the sources: a hash is taken to be a value that
\* only its own password verifies.
get_password_hash(password) == <<"hash", password>>

verify_password(plain_password, hashed_password) ==
    hashed_password = get_password_hash(plain_password)

\* A row of the table users, as create_user writes it: is_active is left to its
\* column default.
User(id, username, email, hashed_password, role) ==
    [id |-> id, username |-> username, email |-> email,
     hashed_password |-> hashed_password, role |-> role, is_active |-> TRUE]

\* The accounts the seeding creates: the administrator and a student.
seed_users ==
    {User(1, "admin", "admin@kazakhlearn.com", get_password_hash("old"),
          "admin"),
     User(2, "student1", "student1@kazakhlearn.com", get_password_hash("old"),
          "student")}

Init ==
    /\ rows = {}
    /\ nextId = 1
    /\ now = 0
    /\ reqs = [s \in Slots |-> Idle]
    /\ last = Call("none", 0, 0, None, None, None, "none")
    /\ answered = <<>>
    /\ user_streaks = {}
    /\ users = seed_users
    /\ user_sessions = {}
    /\ tokens = {}
    /\ login_of = <<>>
    /\ voided = {}

(***************************************************************************)
(* The operations, each run from start to end with no other request between *)
(***************************************************************************)
Tick ==
    /\ now < MaxNow
    /\ now' = now + 1
    /\ UNCHANGED <<rows, nextId, reqs, last, answered>>
    /\ UNCHANGED elsewhere

\* variant: adding a word that is on the list sets the requested status
add_word_overwrite(user_id, word_id, status) ==
    LET existing == get_user_word_progress(rows, user_id, word_id)
        progress == UserWordProgress(nextId, user_id, word_id, status, now)
    IN  IF existing # None
        THEN /\ rows' = ExecuteUpdate(rows, user_id, word_id, "status" :> status)
             /\ last' = Call("add", user_id, word_id, Some(status), None,
                             get_user_word_progress(rows', user_id, word_id), "none")
             /\ UNCHANGED <<nextId, now, reqs, answered>>
        ELSE /\ unique_user_word(rows, user_id, word_id)
             /\ rows' = rows \cup {progress}
             /\ nextId' = nextId + 1
             /\ answered' = Insert(answered, nextId)
             /\ last' = Call("add", user_id, word_id, Some(status), None,
                             Some(progress), "none")
             /\ UNCHANGED <<now, reqs>>

add_word_to_learning_list(user_id, word_id, status) ==
    LET existing == get_user_word_progress(rows, user_id, word_id)
        progress == UserWordProgress(nextId, user_id, word_id, status, now)
    IN  IF existing # None
        THEN /\ last' = Call("add", user_id, word_id, Some(status), None,
                             existing, "none")
             /\ UNCHANGED <<rows, nextId, now, reqs, answered>>
        ELSE /\ unique_user_word(rows, user_id, word_id)
             /\ rows' = rows \cup {progress}
             /\ nextId' = nextId + 1
             /\ answered' = Insert(answered, nextId)
             /\ last' = Call("add", user_id, word_id, Some(status), None,
                             Some(progress), "none")
             /\ UNCHANGED <<now, reqs>>

\* variant: an update for a pair that has no row creates the row
update_word_progress_upsert(user_id, word_id, status, was_correct, difficulty_rating, user_notes) ==
    LET progress == get_user_word_progress(rows, user_id, word_id)
        result == get_user_word_progress(rows', user_id, word_id)
        created == UserWordProgress(nextId, user_id, word_id, "want_to_learn", now)
    IN  IF progress = None
        THEN /\ rows' = rows \cup {created}
             /\ nextId' = nextId + 1
             /\ answered' = Insert(answered, nextId)
             /\ last' = Call("update", user_id, word_id, status, was_correct,
                             Some(created), "none")
             /\ UNCHANGED <<now, reqs>>
        ELSE /\ rows' = ExecuteUpdate(rows, user_id, word_id,
                            update_data(progress[1], status, was_correct,
                                        difficulty_rating, user_notes, now))
             /\ last' = Call("update", user_id, word_id, status, was_correct,
                             result, "none")
             /\ answered' = Acknowledge(answered, was_correct, result)
             /\ UNCHANGED <<nextId, now, reqs>>

update_word_progress(user_id, word_id, status, was_correct, difficulty_rating, user_notes) ==
    LET progress == get_user_word_progress(rows, user_id, word_id)
        result == get_user_word_progress(rows', user_id, word_id)
    IN  IF progress = None
        THEN /\ last' = Call("update", user_id, word_id, status, was_correct,
                             None, "none")
             /\ UNCHANGED <<rows, nextId, now, reqs, answered>>
        ELSE /\ rows' = ExecuteUpdate(rows, user_id, word_id,
                            update_data(progress[1], status, was_correct,
                                        difficulty_rating, user_notes, now))
             /\ last' = Call("update", user_id, word_id, status, was_correct,
                             result, "none")
             /\ answered' = Acknowledge(answered, was_correct, result)
             /\ UNCHANGED <<nextId, now, reqs>>

\* variant: the record is kept and marked, not deleted
remove_word_soft(user_id, word_id) ==
    /\ rows' = ExecuteUpdate(rows, user_id, word_id, "status" :> "want_to_learn")
    /\ last' = Call("remove", user_id, word_id, None, None,
                    Some(Matching(rows, user_id, word_id) # {}), "none")
    /\ answered' = Keep(answered, rows')
    /\ UNCHANGED <<nextId, now, reqs>>

remove_word_from_learning(user_id, word_id) ==
    /\ rows' = ExecuteDelete(rows, user_id, word_id)
    /\ last' = Call("remove", user_id, word_id, None, None,
                    Some(Matching(rows, user_id, word_id) # {}), "none")
    /\ answered' = Keep(answered, rows')
    /\ UNCHANGED <<nextId, now, reqs>>

\* the guards that keep the row ids and the counters within the bounds
IdsLeft(user_id, word_id) ==
    nextId <= MaxId \/ Matching(rows, user_id, word_id) # {}
SeenBelow(user_id, word_id, was_correct, max) ==
    was_correct # None =>
        \A r \in Matching(rows, user_id, word_id) : r.times_seen < max

AddToList ==
    \E u \in Users, w \in Words, s \in LearningStatus :
        /\ IdsLeft(u, w)
        /\ add_word_to_learning_list(u, w, s)
        /\ UNCHANGED elsewhere

UpdateProgress ==
    \E u \in Users, w \in Words, s \in Option(LearningStatus),
       c \in Option(BOOLEAN), d \in Option(RatingInputs), n \in Option(NoteInputs) :
        /\ SeenBelow(u, w, c, MaxSeen)
        /\ update_word_progress(u, w, s, c, d, n)
        /\ UNCHANGED elsewhere

Remove ==
    \E u \in Users, w \in Words : remove_word_from_learning(u, w)
        /\ UNCHANGED elsewhere

\* the requests that carry one field: PUT /words/{word_id}/progress with
\* only user_notes, or only difficulty_rating, in the body
SetNotes ==
    \E u \in Users, w \in Words, n \in NoteInputs :
        update_word_progress(u, w, None, None, None, Some(n))

SetDifficultyRating ==
    \E u \in Users, w \in Words, d \in RatingInputs :
        update_word_progress(u, w, None, None, Some(d), None)

Next == Tick \/ AddToList \/ UpdateProgress \/ Remove

Spec == Init /\ [][Next]_vars

(***************************************************************************)
(* Long runs of answers on one record: AddToList and RecordAnswer only,     *)
(* on one day or on several                                                 *)
(***************************************************************************)
MaxAnswers == 8

AddWord ==
    \E u \in Users, w \in Words :
        /\ IdsLeft(u, w)
        /\ add_word_to_learning_list(u, w, "want_to_learn")
        /\ UNCHANGED elsewhere

RecordAnswer ==
    \E u \in Users, w \in Words, c \in BOOLEAN :
        /\ SeenBelow(u, w, Some(c), MaxAnswers)
        /\ update_word_progress(u, w, None, Some(c), None, None)
        /\ UNCHANGED elsewhere

NextAnswers == Tick \/ AddWord \/ RecordAnswer

SpecAnswers == Init /\ [][NextAnswers]_vars

(***************************************************************************)
(* Requests that overlap.  Every request runs on a database session of its  *)
(* own (get_db) and gives up control at each await on the database, so a    *)
(* handler is two steps: its SELECT, and its INSERT or UPDATE with the      *)
(* commit.  reqs[slot] is what a worker holds between the two steps.        *)
(***************************************************************************)
ConcStatus == {"learning", "learned"}

\* add_word_to_learning_list up to the end of its SELECT
add_select(slot, user_id, word_id, status) ==
    LET existing == get_user_word_progress(rows, user_id, word_id)
    IN  /\ reqs[slot] = Idle
        /\ IF existing # None
           THEN /\ last' = Call("add", user_id, word_id, Some(status), None,
                                existing, "none")
                /\ UNCHANGED reqs
           ELSE /\ reqs' = [reqs EXCEPT ![slot] =
                        [pc |-> "add", user_id |-> user_id,
                         word_id |-> word_id, status |-> status]]
                /\ UNCHANGED last
        /\ UNCHANGED <<rows, nextId, now, answered>>

\* db.add(progress); commit: the INSERT takes its id from the sequence and
\* fails on unique_user_word when the pair has a row by now
add_commit(slot) ==
    LET r == reqs[slot]
        progress == UserWordProgress(nextId, r.user_id, r.word_id, r.status, now)
    IN  /\ r.pc = "add"
        /\ nextId' = nextId + 1
        /\ reqs' = [reqs EXCEPT ![slot] = Idle]
        /\ IF unique_user_word(rows, r.user_id, r.word_id)
           THEN /\ rows' = rows \cup {progress}
                /\ answered' = Insert(answered, nextId)
                /\ last' = Call("add", r.user_id, r.word_id, Some(r.status),
                                None, Some(progress), "none")
           ELSE /\ last' = Call("add", r.user_id, r.word_id, Some(r.status),
                                None, None, "IntegrityError")
                /\ UNCHANGED <<rows, answered>>
        /\ UNCHANGED now

\* update_word_progress up to the UPDATE statement: the SELECT and the
\* update_data computed from the row it returned
update_select(slot, user_id, word_id, status, was_correct, difficulty_rating, user_notes) ==
    LET progress == get_user_word_progress(rows, user_id, word_id)
    IN  /\ reqs[slot] = Idle
        /\ IF progress = None
           THEN /\ last' = Call("update", user_id, word_id, status,
                                was_correct, None, "none")
                /\ UNCHANGED reqs
           ELSE /\ reqs' = [reqs EXCEPT ![slot] =
                        [pc |-> "update", user_id |-> user_id,
                         word_id |-> word_id, status |-> status,
                         was_correct |-> was_correct,
                         values |-> update_data(progress[1], status, was_correct,
                                                difficulty_rating, user_notes, now)]]
                /\ UNCHANGED last
        /\ UNCHANGED <<rows, nextId, now, answered>>

\* the UPDATE ... RETURNING and the commit
update_commit(slot) ==
    LET r == reqs[slot]
        result == get_user_word_progress(rows', r.user_id, r.word_id)
    IN  /\ r.pc = "update"
        /\ rows' = ExecuteUpdate(rows, r.user_id, r.word_id, r.values)
        /\ reqs' = [reqs EXCEPT ![slot] = Idle]
        /\ last' = Call("update", r.user_id, r.word_id, r.status, r.was_correct,
                        result, "none")
        /\ answered' = Acknowledge(answered, r.was_correct, result)
        /\ UNCHANGED <<nextId, now>>

AddSelect ==
    \E slot \in Slots, u \in Users, w \in Words, s \in ConcStatus :
        /\ IdsLeft(u, w)
        /\ add_select(slot, u, w, s)
        /\ UNCHANGED elsewhere

AddCommit == \E slot \in Slots : add_commit(slot)
    /\ UNCHANGED elsewhere

UpdateSelect ==
    \E slot \in Slots, u \in Users, w \in Words, s \in Option(ConcStatus),
       c \in Option(BOOLEAN) :
        /\ SeenBelow(u, w, c, MaxSeen)
        /\ update_select(slot, u, w, s, c, None, None)
        /\ UNCHANGED elsewhere

UpdateCommit == \E slot \in Slots : update_commit(slot)
    /\ UNCHANGED elsewhere

NextConc == AddSelect \/ AddCommit \/ UpdateSelect \/ UpdateCommit \/ Remove

SpecConc == Init /\ [][NextConc]_vars

(***************************************************************************)
(* The reads: the review query and the statistics                           *)
(***************************************************************************)
MaxDay == 2

ReviewWords == {1, 2}
Limits == {1, 2}

\* the statuses of the IN list of the review query
ReviewStatus == {"learning", "learned", "review"}

\* variant: the query has no condition on the status
DueAnyStatus(table, user_id, t) ==
    {r \in table :
        /\ r.user_id = user_id
        /\ r.next_review_at # None
        /\ r.next_review_at[1] <= t}

\* the rows of WHERE user_id = u AND next_review_at <= utcnow() AND status IN
\* (LEARNING, LEARNED, REVIEW); a NULL next_review_at compares as unknown and
\* the row is left out
Due(table, user_id, t) ==
    {r \in table :
        /\ r.user_id = user_id
        /\ r.next_review_at # None
        /\ r.next_review_at[1] <= t
        /\ r.status \in ReviewStatus}

\* variant: the rows come in the order of their ids
OrderById(S) ==
    {p \in [1..Cardinality(S) -> S] :
        \A i, j \in 1..Cardinality(S) : i < j => p[i].id < p[j].id}

\* ORDER BY next_review_at: the orders in which the rows of S may come, rows
\* with equal next_review_at in any order
OrderByNextReviewAt(S) ==
    {p \in [1..Cardinality(S) -> S] :
        /\ \A i, j \in 1..Cardinality(S) : i # j => p[i] # p[j]
        /\ \A i, j \in 1..Cardinality(S) :
               i < j => p[i].next_review_at[1] <= p[j].next_review_at[1]}

\* LIMIT limit
Limit(p, limit) ==
    [i \in 1..(IF Len(p) < limit THEN Len(p) ELSE limit) |-> p[i]]

\* the lists that get_words_for_review may return
get_words_for_review(table, user_id, limit, t) ==
    {Limit(p, limit) : p \in OrderByNextReviewAt(Due(table, user_id, t))}

RECURSIVE Sum(_, _)
Sum(S, field) ==
    IF S = {} THEN 0
    ELSE LET r == CHOOSE x \in S : TRUE
         IN  r[field] + Sum(S \ {r}, field)

\* round((total_correct / total_seen) * 100, 1), in tenths of a percent; no
\* quotient of the model lies halfway between two tenths
accuracy_rate(total_correct, total_seen) ==
    IF total_seen > 0
    THEN (2000 * total_correct + total_seen) \div (2 * total_seen)
    ELSE 0

\* the statistics that are computed from user_word_progress (the sessions of
\* the week and the streak come from tables of their own)
get_user_learning_stats(table, user_id, t) ==
    LET mine == {r \in table : r.user_id = user_id}
        total_correct == Sum(mine, "times_correct")
        total_seen == Sum(mine, "times_seen")
    IN  [total_words |-> Cardinality(mine),
         words_by_status |->
             [st \in LearningStatus |-> Cardinality({r \in mine : r.status = st})],
         accuracy_rate |-> accuracy_rate(total_correct, total_seen),
         words_due_review |-> Cardinality(Due(table, user_id, t)),
         total_correct |-> total_correct,
         total_seen |-> total_seen]

\* what a completed read was and what it returned
Query(op, user_id, limit, result) ==
    [op |-> op, user_id |-> user_id, limit |-> limit, result |-> result]

\* variant: the query marks the rows it returns as practiced
words_due_for_review_touch(user_id, limit) ==
    \E result \in get_words_for_review(rows, user_id, limit, now) :
        /\ last' = Query("review", user_id, limit, result)
        /\ rows' = {IF \E i \in 1..Len(result) : result[i] = r
                    THEN [r EXCEPT !.last_practiced_at = Some(now)]
                    ELSE r : r \in rows}
        /\ UNCHANGED <<nextId, now, reqs, answered>>

\* GET /words/due-for-review
words_due_for_review(user_id, limit) ==
    \E result \in get_words_for_review(rows, user_id, limit, now) :
        /\ last' = Query("review", user_id, limit, result)
        /\ UNCHANGED <<rows, nextId, now, reqs, answered>>

\* GET /stats
learning_statistics(user_id) ==
    /\ last' = Query("stats", user_id, 0,
                     get_user_learning_stats(rows, user_id, now))
    /\ UNCHANGED <<rows, nextId, now, reqs, answered>>

TickReview ==
    /\ now < MaxDay
    /\ now' = now + 1
    /\ UNCHANGED <<rows, nextId, reqs, last, answered>>
    /\ UNCHANGED elsewhere

AddReviewWord ==
    \E u \in Users, w \in ReviewWords, s \in LearningStatus :
        /\ IdsLeft(u, w)
        /\ add_word_to_learning_list(u, w, s)
        /\ UNCHANGED elsewhere

\* the first answer on a word of the list
AnswerReviewWord ==
    \E u \in Users, w \in ReviewWords, c \in BOOLEAN :
        /\ \A r \in Matching(rows, u, w) : r.times_seen = 0
        /\ update_word_progress(u, w, None, Some(c), None, None)
        /\ UNCHANGED elsewhere

WordsDueForReview ==
    \E u \in Users, limit \in Limits : words_due_for_review(u, limit)
        /\ UNCHANGED elsewhere

UserStats ==
    \E u \in Users : learning_statistics(u)
        /\ UNCHANGED elsewhere

NextReview ==
    TickReview \/ AddReviewWord \/ AnswerReviewWord \/ WordsDueForReview
    \/ UserStats

SpecReview == Init /\ [][NextReview]_vars

(***************************************************************************)
(* Answers that overlap on one record: a request may hold the row it has    *)
(* read while another sends several answers; the statistics are read in    *)
(* between                                                                  *)
(***************************************************************************)
MaxConcSeen == 2

AnswerSelect ==
    \E slot \in Slots, u \in Users, w \in Words, c \in BOOLEAN :
        /\ SeenBelow(u, w, Some(c), MaxConcSeen)
        /\ update_select(slot, u, w, None, Some(c), None, None)
        /\ UNCHANGED elsewhere

NextConcAnswers == AddWord \/ AnswerSelect \/ UpdateCommit \/ UserStats

SpecConcAnswers == Init /\ [][NextConcAnswers]_vars

(***************************************************************************)
(* What the routes answer, from what the CRUD call returned to them         *)
(***************************************************************************)
HTTPException(status_code, detail) ==
    [status_code |-> status_code, detail |-> detail]
HTTPOk(body) == [status_code |-> 200, body |-> body]

\* PUT /words/{word_id}/progress
update_word_progress_response(progress) ==
    IF progress = None
    THEN HTTPException(404, "Word progress not found")
    ELSE HTTPOk(progress[1])

\* POST /practice/{session_id}/answer: the route does not look at what
\* update_word_progress returned
submit_practice_answer_response(progress, was_correct) ==
    HTTPOk([message |-> "Answer recorded", was_correct |-> was_correct])

\* DELETE /words/{word_id}
remove_word_response(success) ==
    IF ~success
    THEN HTTPException(404, "Word not found in learning list")
    ELSE HTTPOk([message |-> "Word removed from learning list"])

\* GET /words/{word_id}/status
get_word_status_response(progress) ==
    IF progress = None
    THEN HTTPException(404, "Word progress not found")
    ELSE HTTPOk(progress[1])

(***************************************************************************)
(* Two users with the same word on their lists.  User 1 sends every kind of *)
(* request; user 2 adds the word and answers.                               *)
(***************************************************************************)
Owners == {1, 2}

\* the bodies of PUT /words/{word_id}/progress that user 1 sends:
\* <<status, was_correct, difficulty_rating, user_notes>>
OwnerRequests ==
    {<<Some("learned"), None, None, None>>,
     <<None, Some(TRUE), None, None>>,
     <<None, Some(FALSE), None, None>>,
     <<None, None, Some("easy"), None>>,
     <<None, None, None, Some("note")>>}

\* the answers that user 2 sends
OtherRequests == {<<None, Some(FALSE), None, None>>}

RequestsOf(u) == IF u = 1 THEN OwnerRequests ELSE OtherRequests

\* the function behind GET /words/{word_id}/status
get_word_status(user_id, word_id) ==
    /\ last' = Call("status", user_id, word_id, None, None,
                    get_user_word_progress(rows, user_id, word_id), "none")
    /\ UNCHANGED <<rows, nextId, now, reqs, answered>>

AddOwned ==
    \E u \in Owners, w \in Words :
        /\ IdsLeft(u, w)
        /\ add_word_to_learning_list(u, w, "learning")
        /\ UNCHANGED elsewhere

UpdateOwned ==
    \E u \in Owners, w \in Words : \E q \in RequestsOf(u) :
        /\ SeenBelow(u, w, q[2], MaxSeen)
        /\ update_word_progress(u, w, q[1], q[2], q[3], q[4])
        /\ UNCHANGED elsewhere

RemoveOwned ==
    \E w \in Words : remove_word_from_learning(1, w)
        /\ UNCHANGED elsewhere

ReviewOwned ==
    \E u \in Owners, limit \in Limits : words_due_for_review(u, limit)
        /\ UNCHANGED elsewhere

StatsOwned ==
    \E u \in Owners : learning_statistics(u)
        /\ UNCHANGED elsewhere

StatusOwned ==
    \E u \in Owners, w \in Words : get_word_status(u, w)
        /\ UNCHANGED elsewhere

NextOwners ==
    Tick \/ AddOwned \/ UpdateOwned \/ RemoveOwned \/ ReviewOwned
    \/ StatsOwned \/ StatusOwned

SpecOwners == Init /\ [][NextOwners]_vars

(***************************************************************************)
(* The catalogue and the three ways in which a word gets on a list: the     *)
(* route for one word, the route for several, the CRUD operation called     *)
(* with no check before it                                                  *)
(***************************************************************************)
\* the ids of the table kazakh_words, and the ids that requests name
kazakh_words == {1}
RequestedWords == {1, 2}
RequestedStatus == {"want_to_learn", "learning"}

\* the word_ids of the requests that add several words
WordLists ==
    {<<w>> : w \in RequestedWords}
    \cup {<<w, v>> : w \in RequestedWords, v \in RequestedWords}

\* KazakhWordCRUD.get_by_id(db, word_id) is not None
get_by_id(word_id) == word_id \in kazakh_words

\* POST /words/{word_id}/add
add_word_route(user_id, word_id, status) ==
    IF ~get_by_id(word_id)
    THEN /\ last' = Call("add", user_id, word_id, Some(status), None, None,
                         "404 Word not found")
         /\ UNCHANGED <<rows, nextId, now, reqs, answered>>
    ELSE add_word_to_learning_list(user_id, word_id, status)

\* the loop of POST /words/add-multiple from its i-th word on; st holds the
\* table, the sequence of ids, the results so far and the history
RECURSIVE add_each(_, _, _, _, _)
add_each(user_id, word_ids, status, i, st) ==
    IF i > Len(word_ids)
    THEN st
    ELSE LET word_id == word_ids[i]
             existing == get_user_word_progress(st.rows, user_id, word_id)
             progress == UserWordProgress(st.nextId, user_id, word_id, status, now)
         IN  IF ~get_by_id(word_id)
             THEN add_each(user_id, word_ids, status, i + 1, st)
             ELSE IF existing # None
             THEN add_each(user_id, word_ids, status, i + 1,
                           [st EXCEPT !.results = Append(@, existing[1])])
             ELSE add_each(user_id, word_ids, status, i + 1,
                           [rows |-> st.rows \cup {progress},
                            nextId |-> st.nextId + 1,
                            results |-> Append(st.results, progress),
                            answered |-> Insert(st.answered, st.nextId)])

\* POST /words/add-multiple
add_multiple_words(user_id, word_ids, status) ==
    LET st == add_each(user_id, word_ids, status, 1,
                       [rows |-> rows, nextId |-> nextId, results |-> <<>>,
                        answered |-> answered])
    IN  /\ rows' = st.rows
        /\ nextId' = st.nextId
        /\ answered' = st.answered
        /\ last' = [op |-> "add_multiple", user_id |-> user_id,
                    word_ids |-> word_ids, status |-> Some(status),
                    result |-> st.results, error |-> "none"]
        /\ UNCHANGED <<now, reqs>>

\* UserWordProgressCRUD.add_word_to_learning_list called with no check before
\* it: the INSERT of a word that kazakh_words does not hold fails on the
\* foreign key of kazakh_word_id, after it has taken its id
add_word_crud(user_id, word_id, status) ==
    IF get_by_id(word_id) \/ get_user_word_progress(rows, user_id, word_id) # None
    THEN add_word_to_learning_list(user_id, word_id, status)
    ELSE /\ nextId' = nextId + 1
         /\ last' = Call("add", user_id, word_id, Some(status), None, None,
                         "IntegrityError")
         /\ UNCHANGED <<rows, now, reqs, answered>>

AddOne ==
    \E u \in Users, w \in RequestedWords, s \in RequestedStatus :
        /\ IdsLeft(u, w)
        /\ add_word_route(u, w, s)
        /\ UNCHANGED elsewhere

AddMultiple ==
    \E u \in Users, word_ids \in WordLists, s \in RequestedStatus :
        /\ \A i \in 1..Len(word_ids) : IdsLeft(u, word_ids[i])
        /\ add_multiple_words(u, word_ids, s)
        /\ UNCHANGED elsewhere

AddDirect ==
    \E u \in Users, w \in RequestedWords, s \in RequestedStatus :
        /\ IdsLeft(u, w)
        /\ add_word_crud(u, w, s)
        /\ UNCHANGED elsewhere

NextCatalogue == Tick \/ AddOne \/ AddMultiple \/ AddDirect \/ Remove

SpecCatalogue == Init /\ [][NextCatalogue]_vars

(***************************************************************************)
(* The daily streak.  Here the clock counts parts of a day, so that two     *)
(* calls of one calendar day have different times.                          *)
(***************************************************************************)
MaxStreakDay == 4

DayParts == 2

StreakUsers == {1, 2}

\* A clock that takes every call for a day of its own.
date_of_each_call(t) == t

\* datetime.date()
date(t) == t \div DayParts

\* The row update_streak adds for a user who has none.
UserStreak(user_id, streak_type, t) ==
    [user_id |-> user_id, streak_type |-> streak_type,
     current_streak |-> 1, longest_streak |-> 1,
     last_activity_date |-> Some(t), streak_start_date |-> Some(t),
     updated_at |-> t]

\* A continuation that leaves the record of the longest streak alone.
continue_streak_longest_kept(streak, t) ==
    [streak EXCEPT !.current_streak = @ + 1,
                   !.last_activity_date = Some(t)]

\* The day after the last activity.
continue_streak(streak, t) ==
    [streak EXCEPT !.current_streak = @ + 1,
                   !.longest_streak = IntMax(@, streak.current_streak + 1),
                   !.last_activity_date = Some(t)]

\* A later day, or no last activity at all.
reset_streak(streak, t) ==
    [streak EXCEPT !.current_streak = 1,
                   !.last_activity_date = Some(t),
                   !.streak_start_date = Some(t)]

StreakCall(user_id, result) ==
    [op |-> "streak", user_id |-> user_id, result |-> result]

update_streak(user_id, streak_type) ==
    LET found == {s \in user_streaks :
                      s.user_id = user_id /\ s.streak_type = streak_type}
        today == date(now)
    IN  IF found = {}
        THEN LET streak == UserStreak(user_id, streak_type, now)
             IN  /\ user_streaks' = user_streaks \cup {streak}
                 /\ last' = StreakCall(user_id, streak)
        ELSE \E streak \in found :
                 LET last_activity ==
                         IF streak.last_activity_date # None
                         THEN Some(date(streak.last_activity_date[1]))
                         ELSE None
                 IN  IF last_activity = Some(today)
                     THEN /\ user_streaks' = user_streaks
                          /\ last' = StreakCall(user_id, streak)
                     ELSE LET changed ==
                                  IF last_activity = Some(today - 1)
                                  THEN continue_streak(streak, now)
                                  ELSE reset_streak(streak, now)
                              saved == [changed EXCEPT !.updated_at = now]
                          IN  /\ user_streaks' =
                                     (user_streaks \ {streak}) \cup {saved}
                              /\ last' = StreakCall(user_id, saved)

TickStreak ==
    /\ now < MaxStreakDay * DayParts
    /\ now' = now + 1
    /\ UNCHANGED <<word_progress, reqs, last, elsewhere>>

\* finish_practice_session and a correct submit_practice_answer
UpdateStreak ==
    \E u \in StreakUsers :
        /\ update_streak(u, "daily")
        /\ UNCHANGED <<word_progress, now, reqs, users, user_sessions, tokens,
                       login_of, voided>>

NextStreak == TickStreak \/ UpdateStreak

SpecStreak == Init /\ [][NextStreak]_vars

(***************************************************************************)
(* Accounts, sessions and tokens.  Here the clock counts minutes.  A token  *)
(* is its payload: a client cannot make one up, it presents one of those    *)
(* issued to it.                                                            *)
(***************************************************************************)
MaxAuthTicks == 3

MinutesPerTick == 10

MaxSessions == 2

TOKEN_REFRESH_THRESHOLD_MINUTES == 15

\* auth/utils.py is not part of the sources: the lifetime is taken longer than
\* the refresh threshold, as a token that is always about to expire would be
\* refreshed by every request.
ACCESS_TOKEN_EXPIRE_MINUTES == 30

Usernames == {"admin", "student1"}

\* create_access_token: the payload and the expiry claim.  The callers that
\* pass no expires_delta get the lifetime above.
create_access_token(data, expires_delta) ==
    [sub |-> data.sub, user_id |-> data.user_id, role |-> data.role,
     jti |-> data.jti, exp |-> now + expires_delta]

\* decode_access_token: the payload of a token that was issued, or nothing.
\* Whether it refuses a token whose expiry claim has passed is not known.
decode_access_token(token) ==
    IF token.exp > now THEN {Some(token)} ELSE {Some(token), None}

UserSession(user_id, token_jti, expires_at) ==
    [user_id |-> user_id, token_jti |-> token_jti, expires_at |-> expires_at,
     is_revoked |-> FALSE]

\* The jti is uuid.uuid4(): an identifier no session has.
create_session(user_id, expires_at) ==
    UserSession(user_id, 1 + Cardinality(user_sessions), expires_at)

\* A look-up that does not ask whether the session was revoked.
get_session_by_jti_revoked_too(jti) ==
    {s \in user_sessions : s.token_jti = jti /\ s.expires_at > now}

get_session_by_jti(jti) ==
    {s \in user_sessions :
         s.token_jti = jti /\ s.is_revoked = FALSE /\ s.expires_at > now}

revoke_session(jti) ==
    {IF s.token_jti = jti THEN [s EXCEPT !.is_revoked = TRUE] ELSE s :
         s \in user_sessions}

revoke_user_sessions(user_id) ==
    {IF s.user_id = user_id THEN [s EXCEPT !.is_revoked = TRUE] ELSE s :
         s \in user_sessions}

get_user_by_id(user_id) == {u \in users : u.id = user_id}

get_user_by_username(username) == {u \in users : u.username = username}

get_user_by_email(email) == {u \in users : u.email = email}

\* What a handler answered to the token it was called with.
AuthCall(op, token, result) == [op |-> op, token |-> token, result |-> result]

\* get_current_user, for a token decoded to payload: the user or a 401.
get_current_user(payload) ==
    IF payload = None
    THEN HTTPException(401, "Authentication failed")
    ELSE IF get_session_by_jti(payload[1].jti) = {}
    THEN HTTPException(401, "Session expired or revoked")
    ELSE IF get_user_by_id(payload[1].user_id) = {}
    THEN HTTPException(401, "User not found")
    ELSE LET user == CHOOSE u \in get_user_by_id(payload[1].user_id) : TRUE
         IN  IF ~user.is_active
             THEN HTTPException(401, "User account disabled")
             ELSE HTTPOk(user)

\* get_current_admin
get_current_admin(payload) ==
    LET current_user == get_current_user(payload)
    IN  IF current_user.status_code # 200
        THEN current_user
        ELSE IF current_user.body.role # "admin"
        THEN HTTPException(403, "Admin access required")
        ELSE current_user

\* The token a handler makes for a session of a user.
token_of(user, session, expires_delta) ==
    create_access_token([sub |-> user.username, user_id |-> user.id,
                         role |-> user.role, jti |-> session.token_jti],
                        expires_delta)

\* POST /auth/login
login_user(username, password) ==
    LET found == get_user_by_username(username)
    IN  IF found = {}
        THEN /\ last' = AuthCall("login", None,
                     HTTPException(401, "Incorrect username or password"))
             /\ UNCHANGED <<users, user_sessions, tokens, login_of, voided>>
        ELSE LET user == CHOOSE u \in found : TRUE
             IN  IF ~verify_password(password, user.hashed_password)
                 THEN /\ last' = AuthCall("login", None,
                              HTTPException(401, "Incorrect username or password"))
                      /\ UNCHANGED <<users, user_sessions, tokens, login_of,
                                     voided>>
                 ELSE IF ~user.is_active
                 THEN /\ last' = AuthCall("login", None,
                              HTTPException(401, "User account is disabled"))
                      /\ UNCHANGED <<users, user_sessions, tokens, login_of,
                                     voided>>
                 ELSE LET session == create_session(user.id,
                                         now + ACCESS_TOKEN_EXPIRE_MINUTES)
                          access_token == token_of(user, session,
                                              ACCESS_TOKEN_EXPIRE_MINUTES)
                      IN  /\ user_sessions' = user_sessions \cup {session}
                          /\ tokens' = tokens \cup {access_token}
                          /\ login_of' = login_of @@
                                 (session.token_jti :> session.token_jti)
                          /\ last' = AuthCall("login", None, HTTPOk(access_token))
                          /\ UNCHANGED <<users, voided>>

\* POST /auth/logout
logout_user(token, payload) ==
    IF payload = None
    THEN /\ last' = AuthCall("logout", Some(token),
                 HTTPException(401, "Could not validate credentials"))
         /\ UNCHANGED <<users, user_sessions, tokens, login_of, voided>>
    ELSE /\ user_sessions' = revoke_session(payload[1].jti)
         /\ last' = AuthCall("logout", Some(token),
                HTTPOk("Successfully logged out"))
         /\ UNCHANGED <<users, tokens, login_of, voided>>

\* GET /auth/me
get_current_user_info(token, payload) ==
    /\ last' = AuthCall("me", Some(token), get_current_user(payload))
    /\ UNCHANGED <<users, user_sessions, tokens, login_of, voided>>

\* The sessions of a user that are recorded.
SessionsOf(user_id) ==
    {s.token_jti : s \in {q \in user_sessions : q.user_id = user_id}}

\* POST /auth/change-password
change_password(token, payload, current_password, new_password) ==
    LET current_user == get_current_user(payload)
    IN  IF current_user.status_code # 200
        THEN /\ last' = AuthCall("change_password", Some(token), current_user)
             /\ UNCHANGED <<users, user_sessions, tokens, login_of, voided>>
        ELSE IF ~verify_password(current_password,
                                 current_user.body.hashed_password)
        THEN /\ last' = AuthCall("change_password", Some(token),
                     HTTPException(400, "Incorrect current password"))
             /\ UNCHANGED <<users, user_sessions, tokens, login_of, voided>>
        ELSE /\ users' =
                    {IF u.id = current_user.body.id
                     THEN [u EXCEPT !.hashed_password =
                                        get_password_hash(new_password)]
                     ELSE u : u \in users}
             /\ user_sessions' = revoke_user_sessions(current_user.body.id)
             /\ voided' = voided \cup SessionsOf(current_user.body.id)
             /\ last' = AuthCall("change_password", Some(token),
                    HTTPOk("Password changed successfully. Please login again."))
             /\ UNCHANGED <<tokens, login_of>>

\* POST /auth/revoke-all-sessions
revoke_all_sessions(token, payload) ==
    LET current_user == get_current_user(payload)
    IN  IF current_user.status_code # 200
        THEN /\ last' = AuthCall("revoke_all", Some(token), current_user)
             /\ UNCHANGED <<users, user_sessions, tokens, login_of, voided>>
        ELSE /\ user_sessions' = revoke_user_sessions(current_user.body.id)
             /\ voided' = voided \cup SessionsOf(current_user.body.id)
             /\ last' = AuthCall("revoke_all", Some(token),
                    HTTPOk("All sessions revoked successfully"))
             /\ UNCHANGED <<users, tokens, login_of>>

\* The two refreshes, up to the point where they make the new session:
\* refresh_token always makes one, check_and_refresh_token only for a token
\* about to expire.  The request then holds what it read.
RefreshOps == {"refresh_token", "check_and_refresh_token"}

refresh_select(slot, op, token, payload) ==
    /\ reqs[slot] = Idle
    /\ IF payload = None
       THEN /\ last' = AuthCall(op, Some(token),
                    HTTPException(401, "Token refresh failed"))
            /\ UNCHANGED reqs
       ELSE IF get_session_by_jti(payload[1].jti) = {}
       THEN /\ last' = AuthCall(op, Some(token),
                    HTTPException(401, "Session expired"))
            /\ UNCHANGED reqs
       ELSE IF \A user \in get_user_by_id(payload[1].user_id) : ~user.is_active
       THEN /\ last' = AuthCall(op, Some(token),
                    HTTPException(401, "User not found or inactive"))
            /\ UNCHANGED reqs
       ELSE IF op = "check_and_refresh_token"
               /\ ~(payload[1].exp - now < TOKEN_REFRESH_THRESHOLD_MINUTES)
       THEN /\ last' = AuthCall(op, Some(token), HTTPOk(None))
            /\ UNCHANGED reqs
       ELSE /\ reqs' = [reqs EXCEPT ![slot] =
                           [pc |-> "create", op |-> op, token |-> payload[1],
                            user |-> CHOOSE user \in
                                get_user_by_id(payload[1].user_id) : TRUE]]
            /\ UNCHANGED last
    /\ UNCHANGED <<users, user_sessions, tokens, login_of, voided>>

\* create_session and create_access_token
refresh_create(slot) ==
    /\ reqs[slot] # Idle
    /\ reqs[slot].pc = "create"
    /\ LET req == reqs[slot]
           new_session == create_session(req.user.id,
                              now + ACCESS_TOKEN_EXPIRE_MINUTES)
           new_token == token_of(req.user, new_session,
                                 ACCESS_TOKEN_EXPIRE_MINUTES)
       IN  /\ user_sessions' = user_sessions \cup {new_session}
           /\ login_of' = login_of @@
                  (new_session.token_jti :> login_of[req.token.jti])
           /\ reqs' = [reqs EXCEPT ![slot] =
                          [pc |-> "revoke", op |-> req.op, token |-> req.token,
                           user |-> req.user, new_token |-> new_token]]
    /\ UNCHANGED <<users, tokens, voided, last>>

\* revoke_session of the old session, and the answer with the new token
refresh_revoke(slot) ==
    /\ reqs[slot] # Idle
    /\ reqs[slot].pc = "revoke"
    /\ LET req == reqs[slot]
       IN  /\ user_sessions' = revoke_session(req.token.jti)
           /\ tokens' = tokens \cup {req.new_token}
           /\ last' = AuthCall(req.op, Some(req.token),
                               HTTPOk(Some(req.new_token)))
    /\ reqs' = [reqs EXCEPT ![slot] = Idle]
    /\ UNCHANGED <<users, login_of, voided>>

\* No request is between two of its database calls.
NoRequest == \A slot \in Slots : reqs[slot] = Idle

\* The sessions recorded and those a refresh is about to make are fewer than n.
SessionsBelow(n) ==
    Cardinality(user_sessions)
    + Cardinality({slot \in Slots :
                       reqs[slot] # Idle /\ reqs[slot].pc = "create"}) < n

\* Requests served one after another: a refresh runs its three steps with no
\* other request between them.
TickAuth ==
    /\ NoRequest
    /\ now < MaxAuthTicks * MinutesPerTick
    /\ now' = now + MinutesPerTick
    /\ UNCHANGED <<word_progress, user_streaks, reqs, last, users,
                   user_sessions, tokens, login_of, voided>>

Login ==
    \E username \in Usernames, password \in Passwords :
        /\ NoRequest
        /\ SessionsBelow(MaxSessions)
        /\ login_user(username, password)
        /\ UNCHANGED <<word_progress, user_streaks, now, reqs>>

Logout ==
    \E token \in tokens : \E payload \in decode_access_token(token) :
        /\ NoRequest
        /\ logout_user(token, payload)
        /\ UNCHANGED <<word_progress, user_streaks, now, reqs>>

Me ==
    \E token \in tokens : \E payload \in decode_access_token(token) :
        /\ NoRequest
        /\ get_current_user_info(token, payload)
        /\ UNCHANGED <<word_progress, user_streaks, now, reqs>>

ChangePassword ==
    \E token \in tokens : \E payload \in decode_access_token(token) :
        \E current_password \in Passwords :
            /\ NoRequest
            /\ change_password(token, payload, current_password, "new")
            /\ UNCHANGED <<word_progress, user_streaks, now, reqs>>

RevokeAllSessions ==
    \E token \in tokens : \E payload \in decode_access_token(token) :
        /\ NoRequest
        /\ revoke_all_sessions(token, payload)
        /\ UNCHANGED <<word_progress, user_streaks, now, reqs>>

RefreshSelect ==
    \E op \in RefreshOps, token \in tokens :
        \E payload \in decode_access_token(token) :
            /\ NoRequest
            /\ SessionsBelow(MaxSessions)
            /\ refresh_select(1, op, token, payload)
            /\ UNCHANGED <<word_progress, user_streaks, now>>

RefreshCreate ==
    \E slot \in Slots :
        /\ refresh_create(slot)
        /\ UNCHANGED <<word_progress, user_streaks, now>>

RefreshRevoke ==
    \E slot \in Slots :
        /\ refresh_revoke(slot)
        /\ UNCHANGED <<word_progress, user_streaks, now>>

NextAuth ==
    TickAuth \/ Login \/ Logout \/ Me \/ ChangePassword \/ RevokeAllSessions
    \/ RefreshSelect \/ RefreshCreate \/ RefreshRevoke

SpecAuth == Init /\ [][NextAuth]_vars

(***************************************************************************)
(* Requests of one user that overlap: a refresh that has checked its        *)
(* session may find other requests served before it makes the new one.      *)
(***************************************************************************)
MaxConcSessions == 3

TickConcAuth ==
    /\ now < MaxAuthTicks * MinutesPerTick
    /\ now' = now + MinutesPerTick
    /\ UNCHANGED <<word_progress, user_streaks, reqs, last, users,
                   user_sessions, tokens, login_of, voided>>

LoginStudent ==
    \E password \in Passwords :
        /\ SessionsBelow(MaxConcSessions)
        /\ login_user("student1", password)
        /\ UNCHANGED <<word_progress, user_streaks, now, reqs>>

ChangePasswordAnyTime ==
    \E token \in tokens : \E payload \in decode_access_token(token) :
        /\ change_password(token, payload, "old", "new")
        /\ UNCHANGED <<word_progress, user_streaks, now, reqs>>

RevokeAllSessionsAnyTime ==
    \E token \in tokens : \E payload \in decode_access_token(token) :
        /\ revoke_all_sessions(token, payload)
        /\ UNCHANGED <<word_progress, user_streaks, now, reqs>>

RefreshSelectAnyTime ==
    \E slot \in Slots, op \in RefreshOps, token \in tokens :
        \E payload \in decode_access_token(token) :
            /\ SessionsBelow(MaxConcSessions)
            /\ refresh_select(slot, op, token, payload)
            /\ UNCHANGED <<word_progress, user_streaks, now>>

NextConcAuth ==
    TickConcAuth \/ LoginStudent \/ ChangePasswordAnyTime
    \/ RevokeAllSessionsAnyTime \/ RefreshSelectAnyTime \/ RefreshCreate
    \/ RefreshRevoke

SpecConcAuth == Init /\ [][NextConcAuth]_vars

(***************************************************************************)
(* The roles: registration, promotion and the gate of the endpoints that    *)
(* change the catalogue.                                                    *)
(***************************************************************************)
MaxUsers == 3

RegisterNames == {"student1", "guest"}

RegisterEmails == {"student1@kazakhlearn.com", "guest@kazakhlearn.com"}

\* UserCRUD.create_user: the row, with the next id of the table
create_user(username, email, hashed_password, role) ==
    User(Cardinality(users) + 1, username, email, hashed_password, role)

\* POST /auth/register
register_user(username, email, password, role) ==
    IF get_user_by_username(username) # {}
    THEN /\ last' = AuthCall("register", None,
                 HTTPException(400, "Username already registered"))
         /\ UNCHANGED users
    ELSE IF get_user_by_email(email) # {}
    THEN /\ last' = AuthCall("register", None,
                 HTTPException(400, "Email already registered"))
         /\ UNCHANGED users
    ELSE LET user == create_user(username, email,
                                 get_password_hash(password), role)
         IN  /\ users' = users \cup {user}
             /\ last' = AuthCall("register", None, HTTPOk(user))

\* UserCRUD.update_user_role
update_user_role(user_id, role) ==
    {IF u.id = user_id THEN [u EXCEPT !.role = role] ELSE u : u \in users}

\* POST /auth/admin/promote-user
promote_user_role(token, payload, user_id, new_role) ==
    LET admin_user == get_current_admin(payload)
    IN  IF admin_user.status_code # 200
        THEN /\ last' = AuthCall("promote", Some(token), admin_user)
             /\ UNCHANGED users
        ELSE IF get_user_by_id(user_id) = {}
        THEN /\ last' = AuthCall("promote", Some(token),
                     HTTPException(404, "User not found"))
             /\ UNCHANGED users
        ELSE /\ users' = update_user_role(user_id, new_role)
             /\ last' = AuthCall("promote", Some(token),
                    HTTPOk([user_id |-> user_id, role |-> new_role]))

Register ==
    \E username \in RegisterNames, email \in RegisterEmails, role \in UserRole :
        /\ Cardinality(users) < MaxUsers
        /\ register_user(username, email, "old", role)
        /\ UNCHANGED <<word_progress, user_streaks, now, reqs, user_sessions,
                       tokens, login_of, voided>>

LoginAccount ==
    \E username \in Usernames \cup RegisterNames :
        /\ SessionsBelow(MaxSessions)
        /\ login_user(username, "old")
        /\ UNCHANGED <<word_progress, user_streaks, now, reqs>>

Promote ==
    \E token \in tokens : \E payload \in decode_access_token(token) :
        \E user_id \in 1..MaxUsers, new_role \in UserRole :
            /\ promote_user_role(token, payload, user_id, new_role)
            /\ UNCHANGED <<word_progress, user_streaks, now, reqs,
                           user_sessions, tokens, login_of, voided>>

\* POST /words/ and the other endpoints that depend on get_current_admin
CreateWord ==
    \E token \in tokens : \E payload \in decode_access_token(token) :
        /\ last' = AuthCall("create_kazakh_word", Some(token),
                            get_current_admin(payload))
        /\ UNCHANGED <<word_progress, user_streaks, now, reqs, users,
                       user_sessions, tokens, login_of, voided>>

NextRoles == Register \/ LoginAccount \/ Promote \/ CreateWord

SpecRoles == Init /\ [][NextRoles]_vars

(***************************************************************************)
(* Properties                                                               *)
(***************************************************************************)
\* the doubles 2.6 and 2.4
Float_2_6 == <<5324, 26214, 13107, 6560>>
Float_2_4 == <<4915, 6553, 19660, 26208>>

\* this step is a RecordAnswer call that returned the record
AnswerStep(c) ==
    /\ answered' # answered
    /\ last'.op = "update"
    /\ last'.was_correct = Some(c)
    /\ last'.result # None

\* the row of the last call before the step and after it
Before(r) == r \in rows /\ r.id = last'.result[1].id
After(r) == r \in rows' /\ r.id = last'.result[1].id

AllIdle == \A s \in Slots : reqs[s] = Idle

\* C1: every RecordAnswer call of a run of calls made one after another adds
\* exactly 1 to times_seen and exactly 1 to the counter of its answer, leaves
\* the other counter alone, and leaves times_seen = times_correct +
\* times_incorrect.
C1_CountersStep ==
    [][\A c \in BOOLEAN : AnswerStep(c) =>
        \A r \in rows, q \in rows' : (Before(r) /\ After(q)) =>
            /\ q.times_seen = r.times_seen + 1
            /\ q.times_correct = r.times_correct + (IF c THEN 1 ELSE 0)
            /\ q.times_incorrect = r.times_incorrect + (IF c THEN 0 ELSE 1)
            /\ q.times_seen = q.times_correct + q.times_incorrect]_vars

C1_Witness ==
    \E r \in rows :
        /\ r.times_correct >= 2
        /\ r.times_incorrect >= 2
        /\ last.op = "update"
        /\ last.result = Some(r)

\* the schedules <<interval, ease>> that nc correct and ni incorrect answers
\* give from st, taken in every order
RECURSIVE SerialSchedules(_, _, _)
SerialSchedules(nc, ni, st) ==
    LET row == [repetition_interval |-> st[1], ease_factor |-> st[2]]
        next(c) == <<new_interval(row, c), new_ease(row, c)>>
    IN  IF nc = 0 /\ ni = 0
        THEN {st}
        ELSE (IF nc > 0 THEN SerialSchedules(nc - 1, ni, next(TRUE)) ELSE {})
             \cup (IF ni > 0 THEN SerialSchedules(nc, ni - 1, next(FALSE)) ELSE {})

\* C2: no RecordAnswer is lost under overlap: once no request is in flight,
\* times_seen of a record is the number of RecordAnswer calls that returned
\* it, and its interval and ease are what these answers give in some serial
\* order.
C2_NoLostUpdate ==
    AllIdle =>
        \A r \in rows :
            /\ r.times_seen = answered[r.id][1] + answered[r.id][2]
            /\ <<r.repetition_interval, r.ease_factor>>
                   \in SerialSchedules(answered[r.id][1], answered[r.id][2],
                                       <<1, Float_2_5>>)

\* C3: under every interleaving of requests every stored record has
\* times_seen = times_correct + times_incorrect.
C3_CounterInvariant ==
    \A r \in rows : r.times_seen = r.times_correct + r.times_incorrect

\* C4: after every answer 1.3 <= ease_factor <= 2.8; correct answers alone
\* take the ease from 2.5 to 2.8 with the third, and a correct answer on a
\* record at 2.8 leaves it at 2.8.
C4_EaseBounds ==
    /\ [](\A r \in rows :
            /\ FloatLE(Float_1_3, r.ease_factor)
            /\ FloatLE(r.ease_factor, Float_2_8)
            /\ (r.times_incorrect = 0 /\ r.times_correct >= 3)
                   => r.ease_factor = Float_2_8)
    /\ [][AnswerStep(TRUE) =>
            \A r \in rows, q \in rows' :
                (Before(r) /\ After(q) /\ r.ease_factor = Float_2_8)
                    => q.ease_factor = Float_2_8]_vars

C4_Witness ==
    \E r \in rows :
        /\ r.times_incorrect >= 7
        /\ r.times_correct = 0
        /\ r.ease_factor = Float_1_3

\* C5: repetition_interval >= 1 for every record in every state, and every
\* incorrect answer leaves the record with repetition_interval = 1.
C5_IntervalFloor ==
    /\ [](\A r \in rows : r.repetition_interval >= 1)
    /\ [][AnswerStep(FALSE) =>
            \A q \in rows' : After(q) => q.repetition_interval = 1]_vars

C5_Witness ==
    \E r \in rows :
        /\ r.repetition_interval = 1
        /\ r.times_correct >= 4
        /\ last.op = "update"
        /\ last.was_correct = Some(FALSE)
        /\ last.result = Some(r)

\* C6: an answer sets the schedule by the recurrence: correct gives
\* max(1, floor(interval * ease)) and min(2.8, ease + 0.1), incorrect gives 1
\* and max(1.3, ease - 0.2); next_review_at is now + the new interval and
\* last_practiced_at is now.  A fresh record answered correctly has interval
\* 2, ease 2.6 and its review 2 days on; answered incorrectly after that it
\* has interval 1, ease 2.4 and its review 1 day on.
C6_Recurrence ==
    /\ [][\A c \in BOOLEAN : AnswerStep(c) =>
            \A r \in rows, q \in rows' : (Before(r) /\ After(q)) =>
                /\ q.repetition_interval =
                       (IF c
                        THEN IntMax(1, FloatInt(FloatMulInt(r.repetition_interval,
                                                            r.ease_factor)))
                        ELSE 1)
                /\ q.ease_factor =
                       (IF c
                        THEN FloatMin(Float_2_8, FloatAdd(r.ease_factor, Float_0_1))
                        ELSE FloatMax(Float_1_3, FloatSub(r.ease_factor, Float_0_2)))
                /\ q.next_review_at = Some(now + q.repetition_interval)
                /\ q.last_practiced_at = Some(now)]_vars
    /\ [](\A r \in rows :
            /\ (r.times_seen = 1 /\ r.times_correct = 1) =>
                   /\ r.repetition_interval = 2
                   /\ r.ease_factor = Float_2_6
                   /\ r.next_review_at = Some(r.last_practiced_at[1] + 2)
            /\ (r.times_correct = 1 /\ r.times_incorrect = 1
                /\ last.was_correct = Some(FALSE) /\ last.result = Some(r)) =>
                   /\ r.repetition_interval = 1
                   /\ r.ease_factor = Float_2_4
                   /\ r.next_review_at = Some(r.last_practiced_at[1] + 1))

C6_Witness ==
    \E r \in rows :
        /\ r.times_correct = 1
        /\ r.times_incorrect = 1
        /\ r.ease_factor = Float_2_4
        /\ last.was_correct = Some(FALSE)
        /\ last.result = Some(r)

\* C7: AddToList for a pair that has a record changes no row and returns the
\* record as it is, whatever initial status it asks for.
C7_AddIdempotent ==
    [][(last'.op = "add" /\ Matching(rows, last'.user_id, last'.word_id) # {})
        => /\ rows' = rows
           /\ last'.result \in {Some(r) : r \in rows}
           /\ last'.result[1].user_id = last'.user_id
           /\ last'.result[1].kazakh_word_id = last'.word_id]_vars

C7_Witness ==
    /\ last.op = "add"
    /\ last.result # None
    /\ last.result[1].status # last.status[1]
    /\ last.result[1].user_notes # None
    /\ last.result[1].times_seen > 0
    /\ last.result[1] \in rows

\* C8: in every state reached by any interleaving of AddToList, SetStatus,
\* RecordAnswer and Remove there is at most one record for each (user_id,
\* word_id).
C8_UniquePair ==
    \A r \in rows, q \in rows :
        (r.user_id = q.user_id /\ r.kazakh_word_id = q.kazakh_word_id) => r = q

C8_Witness ==
    /\ last.op = "add"
    /\ last.error = "IntegrityError"
    /\ Cardinality(Matching(rows, last.user_id, last.word_id)) = 1

\* C9: a SetStatus call on a record whose first_learned_at is set leaves
\* first_learned_at as it is.
C9_FirstLearnedStable ==
    [][(last'.op = "update" /\ last'.status # None) =>
        \A r \in rows, q \in rows' :
            (r.id = q.id /\ r.first_learned_at # None)
                => q.first_learned_at = r.first_learned_at]_vars

C9_Witness ==
    \E r \in rows :
        /\ r.first_learned_at # None
        /\ r.first_learned_at[1] < r.updated_at
        /\ last.op = "update"
        /\ last.status = Some("learned")
        /\ last.result = Some(r)

\* C10: every record with status Learned has first_learned_at set, whether
\* SetStatus(Learned) or AddToList with initial status Learned made it so.
C10_LearnedIsStamped ==
    \A r \in rows : r.status = "learned" => r.first_learned_at # None

\* the fields that only an answer sets: the counters and the schedule
AnswerFields ==
    {"times_seen", "times_correct", "times_incorrect", "last_practiced_at",
     "next_review_at", "repetition_interval", "ease_factor"}

\* C11: an update_word_progress call with was_correct absent (SetStatus,
\* SetNotes, SetDifficultyRating, alone or together) leaves
\* repetition_interval, ease_factor, next_review_at, last_practiced_at,
\* times_seen, times_correct and times_incorrect of every record as they
\* were: the recurrence runs on answers only.
C11_RecurrenceOnAnswersOnly ==
    [][(last'.op = "update" /\ last'.was_correct = None) =>
        \A r \in rows, q \in rows' :
            r.id = q.id => \A f \in AnswerFields : q[f] = r[f]]_vars

C11_Witness ==
    \E r \in rows :
        /\ last.op = "update"
        /\ last.was_correct = None
        /\ last.status # None
        /\ last.result = Some(r)
        /\ r.times_seen > 0
        /\ r.next_review_at # None
        /\ r.user_notes # None
        /\ r.difficulty_rating # None

\* every row that is in the table before and after the step keeps all its
\* fields but those of the set
OnlyFieldsChange(fields) ==
    /\ {r.id : r \in rows'} = {r.id : r \in rows}
    /\ \A r \in rows, q \in rows' :
           r.id = q.id => \A f \in (DOMAIN r) \ fields : q[f] = r[f]

\* C12 as stated: SetNotes changes only user_notes and SetDifficultyRating
\* changes only difficulty_rating; every other field of the record, updated_at
\* among them, is left unchanged.
C12_IndependentFields ==
    [][/\ SetNotes => OnlyFieldsChange({"user_notes"})
       /\ SetDifficultyRating => OnlyFieldsChange({"difficulty_rating"})]_vars

\* C12 amended: SetNotes changes only user_notes and updated_at, and
\* SetDifficultyRating changes only difficulty_rating and updated_at;
\* updated_at of the record becomes the time of the call, every other field
\* (status, counters, schedule fields, first_learned_at and the other of the
\* two) is left unchanged, and the field of the call holds the value sent.
C12_IndependentFieldsButStamp ==
    [][/\ SetNotes =>
            /\ OnlyFieldsChange({"user_notes", "updated_at"})
            /\ last'.result # None =>
                   /\ last'.result[1].user_notes \in {Some(n) : n \in NoteInputs}
                   /\ last'.result[1].updated_at = now
       /\ SetDifficultyRating =>
            /\ OnlyFieldsChange({"difficulty_rating", "updated_at"})
            /\ last'.result # None =>
                   /\ last'.result[1].difficulty_rating
                          \in {Some(d) : d \in RatingInputs}
                   /\ last'.result[1].updated_at = now]_vars

\* a rating was stored on a record that has notes, an answer and a status
\* set on an earlier day
C12_Witness ==
    \E r \in rows :
        /\ last.op = "update"
        /\ last.status = None
        /\ last.was_correct = None
        /\ last.result = Some(r)
        /\ r.user_notes # None
        /\ r.difficulty_rating # None
        /\ r.times_seen > 0
        /\ r.first_learned_at # None
        /\ r.updated_at > r.created_at

\* the lists that the review query may return to the user in this state
ReviewResults(user_id, limit) == get_words_for_review(rows, user_id, limit, now)

\* the record is in the list
Returned(r, result) == \E i \in 1..Len(result) : result[i] = r

\* C13: WordsDueForReview(user, limit) returns only records of that user with
\* next_review_at <= now and status Learning, Learned or Review: a Mastered or
\* WantToLearn record never appears, however overdue, and a record whose
\* next_review_at is in the future (or not set) never appears.
C13_ReviewFilter ==
    /\ \A u \in Users, limit \in Limits : \A result \in ReviewResults(u, limit) :
           /\ \A i \in 1..Len(result) :
                  /\ result[i] \in rows
                  /\ result[i].user_id = u
                  /\ result[i].status \in {"learning", "learned", "review"}
                  /\ result[i].next_review_at # None
                  /\ result[i].next_review_at[1] <= now
           /\ \A r \in rows :
                  (\/ r.status \in {"mastered", "want_to_learn"}
                   \/ r.next_review_at = None
                   \/ r.next_review_at[1] > now) => ~Returned(r, result)
    /\ last.op = "review" =>
           \A i \in 1..Len(last.result) :
               /\ last.result[i].user_id = last.user_id
               /\ last.result[i].status \in {"learning", "learned", "review"}
               /\ last.result[i].next_review_at # None
               /\ last.result[i].next_review_at[1] <= now

\* the query returned a record while a Mastered or WantToLearn record of the
\* user is overdue and left out
C13_Witness ==
    /\ last.op = "review"
    /\ Len(last.result) = 1
    /\ last.result[1] \in rows
    /\ \E r \in rows :
           /\ r.user_id = last.user_id
           /\ r.status \in {"mastered", "want_to_learn"}
           /\ r.next_review_at # None
           /\ r.next_review_at[1] < now
           /\ r.next_review_at[1] < last.result[1].next_review_at[1]

\* the records of the user that are due, written out from the claim
DueRecordsIn(table, user_id, t) ==
    {r \in table :
        /\ r.user_id = user_id
        /\ r.status \in {"learning", "learned", "review"}
        /\ r.next_review_at # None
        /\ r.next_review_at[1] <= t}
DueRecords(user_id) == DueRecordsIn(rows, user_id, now)

\* the list is sorted, has at most limit entries, as many as are due up to
\* limit, and no due record left out is earlier than a returned one
MostOverdue(result, due, limit) ==
    /\ \A i, j \in 1..Len(result) :
           i < j => result[i].next_review_at[1] <= result[j].next_review_at[1]
    /\ Len(result) <= limit
    /\ Len(result) = (IF Cardinality(due) < limit THEN Cardinality(due) ELSE limit)
    /\ \A i \in 1..Len(result) : result[i] \in due
    /\ \A d \in due :
           ~Returned(d, result) =>
               \A i \in 1..Len(result) :
                   result[i].next_review_at[1] <= d.next_review_at[1]

\* C14: the result of WordsDueForReview(user, limit) is sorted ascending by
\* next_review_at, has at most limit entries, and when more than limit records
\* are due it consists of the limit most-overdue ones.
C14_MostOverdueFirst ==
    /\ [](\A u \in Users, limit \in Limits :
             \A result \in ReviewResults(u, limit) :
                 MostOverdue(result, DueRecords(u), limit))
    /\ [][(last'.op = "review" /\ last' # last) =>
             MostOverdue(last'.result, DueRecords(last'.user_id), last'.limit)]_vars

\* two records were due on different days and the query with limit 1 returned
\* the one that is the more overdue, which is not the one added first
C14_Witness ==
    /\ last.op = "review"
    /\ last.limit = 1
    /\ Len(last.result) = 1
    /\ last.result[1] \in rows
    /\ \E d \in DueRecords(last.user_id) :
           /\ last.result[1].next_review_at[1] < d.next_review_at[1]
           /\ d.id < last.result[1].id

\* C15: WordsDueForReview and UserStats are pure reads: a call changes no
\* field of any progress record, so the set of due records changes only with
\* the time or through AddToList, SetStatus, RecordAnswer and Remove.
C15_PureReads ==
    [][/\ (last'.op \in {"review", "stats"} /\ last' # last) =>
              /\ rows' = rows
              /\ \A u \in Users : DueRecords(u)' = DueRecords(u)
       /\ (\E u \in Users : DueRecords(u)' # DueRecords(u)) =>
              \/ now' # now
              \/ last'.op \in {"add", "update", "remove"}]_vars

\* the review query and the statistics have run on a list with a due record
C15_Witness ==
    /\ last.op = "stats"
    /\ last.result.words_due_review > 0
    /\ last.result.total_words = 2
    /\ last.result.total_seen = 2

\* this step completes a SetStatus or RecordAnswer call for a pair that has
\* no record
UpdateOfMissing ==
    /\ last'.op = "update"
    /\ last'.status # None \/ last'.was_correct # None
    /\ Matching(rows, last'.user_id, last'.word_id) = {}

\* C16: SetStatus and RecordAnswer on a (user, word) pair that has no record
\* are answered with 404 (NotFound), create no record and leave every
\* existing record unchanged.
C16_UpdateNotFound ==
    [][UpdateOfMissing =>
        /\ last'.result = None
        /\ update_word_progress_response(last'.result).status_code = 404
        /\ rows' = rows
        /\ nextId' = nextId]_vars

\* an answer for a pair without a record, while the other user has an
\* answered record of the same word
C16_Witness ==
    /\ last.op = "update"
    /\ last.was_correct # None
    /\ last.result = None
    /\ Matching(rows, last.user_id, last.word_id) = {}
    /\ \E r \in rows : r.kazakh_word_id = last.word_id /\ r.times_seen > 0

\* C17: whenever an answer is submitted for a (user, word) pair that has no
\* record, through PUT /words/{word_id}/progress or through the practice
\* session's answer submission, the caller receives 404 (NotFound) and not a
\* success response.
C17_AnswerNotFound ==
    [][(UpdateOfMissing /\ last'.was_correct # None) =>
        /\ update_word_progress_response(last'.result).status_code = 404
        /\ submit_practice_answer_response(last'.result, last'.was_correct[1])
               .status_code = 404]_vars

\* C18: AddToList for a word_id that the catalogue does not contain fails
\* with UnknownWord (404 Word not found) and creates no record, on the route
\* for one word, on the route for several words and on a direct call of the
\* CRUD operation.
C18_UnknownWord ==
    [][/\ (last'.op = "add" /\ last' # last
           /\ last'.word_id \notin kazakh_words)
              => (last'.error = "404 Word not found" /\ rows' = rows)
       /\ (last'.op = "add_multiple" /\ last' # last
           /\ \E i \in 1..Len(last'.word_ids) :
                  last'.word_ids[i] \notin kazakh_words)
              => (/\ last'.error = "404 Word not found"
                  /\ \A r \in rows' : r.kazakh_word_id \in kazakh_words)]_vars

\* this step completes a Remove call
RemoveStep ==
    /\ last'.op = "remove"
    /\ last' # last \/ rows' # rows

\* C19: Remove(user, word) deletes the record and returns true when there
\* was one, returns false and changes nothing when there was none (so a
\* second Remove returns false, 404 on the route); after a Remove, SetStatus
\* and RecordAnswer for the pair fail with NotFound, and an AddToList for a
\* pair without a record creates a fresh one: counters 0, interval 1, ease
\* 2.5.
C19_Remove ==
    [][/\ RemoveStep =>
            LET existed == Matching(rows, last'.user_id, last'.word_id)
            IN  /\ last'.result = Some(existed # {})
                /\ rows' = rows \ existed
                /\ Matching(rows', last'.user_id, last'.word_id) = {}
                /\ remove_word_response(last'.result[1]).status_code
                       = (IF existed # {} THEN 200 ELSE 404)
       /\ (last.op = "remove" /\ last'.op = "remove" /\ last' # last
           /\ last'.user_id = last.user_id /\ last'.word_id = last.word_id)
              => last'.result = Some(FALSE)
       /\ (last.op = "remove" /\ last'.op = "update"
           /\ last'.user_id = last.user_id /\ last'.word_id = last.word_id)
              => (/\ last'.result = None
                  /\ update_word_progress_response(last'.result).status_code = 404
                  /\ rows' = rows)
       /\ (last'.op = "add" /\ last' # last
           /\ Matching(rows, last'.user_id, last'.word_id) = {})
              => (/\ last'.result # None
                  /\ rows' = rows \cup {last'.result[1]}
                  /\ \A r \in rows : r.id # last'.result[1].id
                  /\ last'.result[1].user_id = last'.user_id
                  /\ last'.result[1].kazakh_word_id = last'.word_id
                  /\ last'.result[1].times_seen = 0
                  /\ last'.result[1].times_correct = 0
                  /\ last'.result[1].times_incorrect = 0
                  /\ last'.result[1].repetition_interval = 1
                  /\ last'.result[1].ease_factor = Float_2_5)]_vars

\* the word is on the list again after a Remove, with a fresh record
C19_Witness ==
    /\ last.op = "add"
    /\ last.result # None
    /\ last.result[1].id > 1
    /\ rows = {last.result[1]}
    /\ last.result[1].times_seen = 0
    /\ now > last.result[1].added_at

\* the records of the table that belong to other users than user_id
OfOthers(table, user_id) == {r \in table : r.user_id # user_id}

\* C20: a record is owned by its (user, word) pair: an AddToList, SetStatus,
\* RecordAnswer, SetNotes, SetDifficultyRating or Remove of user u creates,
\* changes and deletes no record of another user, and WordsDueForReview, the
\* status read and UserStats for u return and count the records of u only.
C20_Ownership ==
    [][/\ last'.op \in {"add", "update", "remove"} =>
              OfOthers(rows', last'.user_id) = OfOthers(rows, last'.user_id)
       /\ (last'.op = "add" /\ last'.result # None) =>
              last'.result[1].user_id = last'.user_id
       /\ (last'.op = "update" /\ last'.result # None) =>
              last'.result[1].user_id = last'.user_id
       /\ (last'.op = "status" /\ last'.result # None) =>
              (/\ last'.result[1].user_id = last'.user_id
               /\ last'.result[1].kazakh_word_id = last'.word_id)
       /\ (last'.op = "review" /\ last' # last) =>
              \A i \in 1..Len(last'.result) :
                  last'.result[i].user_id = last'.user_id
       /\ (last'.op = "stats" /\ last' # last) =>
              LET mine == rows \ OfOthers(rows, last'.user_id)
              IN  /\ last'.result.total_words = Cardinality(mine)
                  /\ \A st \in LearningStatus :
                         last'.result.words_by_status[st]
                             = Cardinality({r \in mine : r.status = st})
                  /\ last'.result.words_due_review
                         = Cardinality(DueRecords(last'.user_id))
                  /\ last'.result.total_seen = Sum(mine, "times_seen")
                  /\ last'.result.total_correct = Sum(mine, "times_correct")]_vars

\* user 1 changed the record of user 1 while user 2 has a due record of the
\* same word
C20_Witness ==
    /\ last.op = "update"
    /\ last.user_id = 1
    /\ last.result # None
    /\ last.result[1].user_notes # None
    /\ last.result[1].times_seen > 0
    /\ DueRecords(2) # {}

\* C21: no step makes times_seen, times_correct or times_incorrect of a
\* record smaller than it was, in any order or interleaving of the calls on
\* the record.
C21_CountersMonotone ==
    [][\A r \in rows, q \in rows' :
        r.id = q.id =>
            /\ q.times_seen >= r.times_seen
            /\ q.times_correct >= r.times_correct
            /\ q.times_incorrect >= r.times_incorrect]_vars

\* C22: UserStats reports total_correct and total_seen as the sums of
\* times_correct and times_seen over the records of the user, and
\* accuracy_rate (here in tenths of a percent) as total_correct / total_seen
\* * 100, which is 0 when total_seen is 0 and lies between 0 and 100
\* otherwise.
C22_Accuracy ==
    [][(last'.op = "stats" /\ last' # last) =>
        LET mine == {r \in rows : r.user_id = last'.user_id}
            stats == last'.result
        IN  /\ stats.total_correct = Sum(mine, "times_correct")
            /\ stats.total_seen = Sum(mine, "times_seen")
            /\ stats.total_seen = 0 => stats.accuracy_rate = 0
            /\ stats.total_seen > 0 =>
                   /\ stats.accuracy_rate * stats.total_seen
                          = 1000 * stats.total_correct
                   /\ stats.accuracy_rate >= 0
                   /\ stats.accuracy_rate <= 1000]_vars

\* the record is in a list that the review query may return to its user now
MayBeReturned(r) ==
    \E limit \in Limits : \E result \in ReviewResults(r.user_id, limit) :
        Returned(r, result)

\* C29: a record that AddToList created has no next_review_at and is not
\* returned by WordsDueForReview, whatever its status and the time, until its
\* first RecordAnswer; after a RecordAnswer it is not returned before
\* repetition_interval (>= 1) days have passed since the answer.
C29_NotDueBeforeAnswer ==
    \A r \in rows :
        /\ r.times_seen = 0 =>
               /\ r.next_review_at = None
               /\ ~MayBeReturned(r)
        /\ r.times_seen > 0 =>
               /\ r.repetition_interval >= 1
               /\ r.next_review_at = Some(r.last_practiced_at[1] + r.repetition_interval)
               /\ MayBeReturned(r) =>
                      now >= r.last_practiced_at[1] + r.repetition_interval

\* the query returned an answered record and left out a record of status
\* Learning that was added two days ago and never answered
C29_Witness ==
    /\ last.op = "review"
    /\ last.limit = 2
    /\ Len(last.result) = 1
    /\ last.result[1] \in rows
    /\ \E r \in rows :
           /\ r.times_seen = 0
           /\ r.status = "learning"
           /\ r.added_at + 2 <= now

\* C30: when two AddToList calls for the same pair interleave, neither
\* fails: every AddToList call completes without an error and returns the
\* one record that the pair has.
C30_InterleavedAddsSucceed ==
    [][(last'.op = "add" /\ last' # last) =>
        /\ last'.error = "none"
        /\ last'.result # None
        /\ Matching(rows', last'.user_id, last'.word_id) = {last'.result[1]}]_vars

\* The calendar day of a time of the streak clock.
DayOf(t) == t \div DayParts

StreakOf(table, user_id) == {s \in table : s.user_id = user_id}

\* C27: update_streak advances a streak at most once per calendar day: the
\* first call for a user creates the streak with current_streak 1; a call on
\* the day of last_activity_date changes nothing; a call on the day after it
\* adds exactly 1 to current_streak; a call after a gap of two or more days
\* resets current_streak to 1 and restarts streak_start_date.
C27_StreakOncePerDay ==
    [][(last'.op = "streak" /\ last' # last) =>
        LET before == StreakOf(user_streaks, last'.user_id)
            after == last'.result
            today == DayOf(now)
        IN  /\ StreakOf(user_streaks', last'.user_id) = {after}
            /\ user_streaks' \ {after} = user_streaks \ before
            /\ before = {} => after.current_streak = 1
            /\ \A b \in before :
                   LET day == DayOf(b.last_activity_date[1])
                   IN  /\ day = today => after = b
                       /\ day = today - 1 =>
                              /\ after.current_streak = b.current_streak + 1
                              /\ after.streak_start_date = b.streak_start_date
                       /\ day < today - 1 =>
                              /\ after.current_streak = 1
                              /\ after.streak_start_date = Some(now)]_vars

\* A streak of three days returned while another user's streak has been
\* restarted after a gap, later in the day of the call.
C27_Witness ==
    /\ last.op = "streak"
    /\ last.result.current_streak = 3
    /\ now > last.result.last_activity_date[1]
    /\ \E s \in user_streaks :
           /\ s.user_id # last.user_id
           /\ s.current_streak = 1
           /\ s.streak_start_date # None
           /\ DayOf(s.streak_start_date[1]) >= 2

\* C28: for a streak created and changed only by update_streak,
\* longest_streak >= current_streak >= 1 holds after every call, and
\* longest_streak never decreases, over any sequence of activity days and gaps.
C28_LongestStreak ==
    /\ [](\A s \in user_streaks :
              s.longest_streak >= s.current_streak /\ s.current_streak >= 1)
    /\ [][\A s \in user_streaks, q \in user_streaks' :
              s.user_id = q.user_id => q.longest_streak >= s.longest_streak]_vars

\* A streak restarted after it had been continued.
C28_Witness ==
    \E s \in user_streaks :
        /\ s.longest_streak = 2
        /\ s.current_streak = 1

\* The session of a token, if it is one that authenticates at time t.
ValidAt(table, jti, t) ==
    {q \in table : q.token_jti = jti /\ ~q.is_revoked /\ q.expires_at > t}

RevokedIn(table, jti) == \E q \in table : q.token_jti = jti /\ q.is_revoked

ActiveUser(user_id) == \E u \in users : u.id = user_id /\ u.is_active

\* The handlers that depend on get_current_user or check the session as it
\* does, and the handlers that are called with a token.
AuthenticatedOps ==
    {"me", "change_password", "revoke_all", "refresh_token",
     "check_and_refresh_token"}

BearerOps == AuthenticatedOps \cup {"logout"}

\* A request that completes in this step is let in only with a session that
\* is recorded, not revoked and not expired, of a user who is active.
OnlyWhileValid ==
    (last' # last /\ last'.op \in AuthenticatedOps
     /\ last'.result.status_code = 200) =>
        /\ ValidAt(user_sessions, last'.token[1].jti, now) # {}
        /\ ActiveUser(last'.token[1].user_id)

\* No step removes a session or takes a revocation back.
RevokedForGood ==
    \A q \in user_sessions :
        /\ \E r \in user_sessions' : r.token_jti = q.token_jti
        /\ q.is_revoked => RevokedIn(user_sessions', q.token_jti)

\* A request of one of the ops that completes in this step with the token of
\* a revoked session is answered 401.
RejectsRevoked(ops) ==
    (last' # last /\ last'.op \in ops
     /\ RevokedIn(user_sessions, last'.token[1].jti)) =>
        last'.result.status_code = 401

ValidSessions == {q \in user_sessions : ~q.is_revoked /\ q.expires_at > now}

\* C24: after change-password or revoke-all-sessions has completed for a user,
\* that user has no valid session until a new login: no valid session goes
\* back, refresh by refresh, to a login made before the call, also when a
\* refresh checked its old session before the call and made its new session
\* after it.
C24_NoSessionAfterRevokeAll ==
    \A q \in ValidSessions : login_of[q.token_jti] \notin voided

\* C25: a refresh replaces a session one for one, so with no request under
\* way the sessions that go back to one login and are valid are at most one,
\* also when requests with the same token were refreshed at the same time.
C25_OneSessionPerLogin ==
    AllIdle =>
        \A login \in DOMAIN login_of :
            Cardinality({q \in ValidSessions :
                             login_of[q.token_jti] = login}) <= 1

\* The accounts that are administrators after the step and were not before.
NewAdmins ==
    {q \in users' :
         q.role = "admin" /\ ~\E u \in users : u.id = q.id /\ u.role = "admin"}

\* C26: only an admin can grant the admin role: an account gets the role admin
\* only in a promote-user request that an authenticated admin made, so no
\* request of a caller who is not an admin yields an account that passes the
\* gate of the endpoints that change the catalogue.
C26_OnlyAdminsGrantAdmin ==
    [][NewAdmins # {} =>
        /\ last'.op = "promote"
        /\ last'.result.status_code = 200
        /\ \E u \in users : u.id = last'.token[1].user_id /\ u.role = "admin"]_vars
====
